---- MODULE Spec2Model ----
(***************************************************************************)
(* Model of the Electron dev environment of src/src/index.ts: the watch    *)
(* builder (createElectronBuilder), the debounced restart                  *)
(* (ElectronDevEnvironment.init), the Electron process supervision         *)
(* (startElectron / stopElectron) and the session lifecycle                *)
(* (init / listen / close), the hand-off of init() to the next session,    *)
(* and the functions of the module that compute a value: the environment   *)
(* of the Electron process, the external predicate and the configuration   *)
(* helpers (SpecPure applies each to one set of arguments).                *)
(*                                                                         *)
(* The program runs on one event loop.  A step of the model is one         *)
(* macrotask (a host call, a watcher event, a timer, a process event) or   *)
(* one promise continuation; continuations queued in "micro" run before    *)
(* the next macrotask.                                                     *)
(***************************************************************************)
EXTENDS Integers, Sequences, FiniteSets

(* ------------------------------ bounds --------------------------------- *)

\* rebuilds (build cycles after a target's first one) the watchers may start
MaxRebuilds == 2
\* Electron processes that may be spawned in one run
MaxProcs == 2
\* startElectron() calls that may be in flight at the same time
MaxTasks == 2
\* close() calls the host may make
MaxCloses == 2

(* --------------------------- program constants ------------------------- *)

\* the delay of the reload timer
ReloadDelay == 500

\* time advances in steps of half a reload delay
TimeStep == ReloadDelay \div 2
\* the elapsed time is not tracked beyond "more than one reload delay"
TimeCap == ReloadDelay + TimeStep

\* the environments built in the background, in the order of the loop
TargetOrder == <<"main", "preload">>
Targets == {TargetOrder[i] : i \in 1..Len(TargetOrder)}

\* the (code, signal) pairs a 'close' event of the child may carry
ExitOutcomes ==
    { [code |-> 0, signal |-> ""],
      [code |-> 2, signal |-> ""],
      [code |-> -1, signal |-> "SIGTERM"] }

Procs == 1..MaxProcs
Tasks == 1..MaxTasks
\* the identity of close() as a waiter of stopElectron()
CloseWaiter == MaxTasks + 1
\* the identity of the init() of the next session as a waiter of stopElectron()
HandoffWaiter == MaxTasks + 2

VARIABLES
    \* --- createElectronBuilder / init
    initPc,         \* "new", "building", "done", "rejected"
    cur,            \* index in TargetOrder of the first build awaited
    initError,      \* the target whose error rejected init, or "none"
    watch,          \* per target: "off", "run", "err", "idle", "closed"
    attached,       \* the 'event' listeners of lines 106-118 are attached
    runningBuilds,  \* the counter of line 105
    builder,        \* this.builder is set
    rebuilds,       \* rebuilds started so far
    firstEnded,     \* the targets whose first build cycle has ended
    firstFailed,    \* the targets whose first build reported an error
    \* --- the reload timer of init
    timers,         \* pending timeouts, each the time left, oldest first
    sinceNotify,    \* time since the last onBuildComplete(), -1 before it
    notifies,       \* onBuildComplete() calls so far
    fires,          \* reload timer callbacks run so far
    burstN,         \* onBuildComplete() calls of the current burst (1, 2 = more)
    burstFired,     \* timer callbacks run since the current burst began
    firedAt,        \* sinceNotify when the timer last fired in this burst, -1 if not
    farApart,       \* every onBuildComplete() came more than ReloadDelay after the last
    \* --- the session
    server,         \* this.server: "none" or "set"
    listenPc,       \* "idle", "rejected", "waiting", "fired"
    resolvedUrls,   \* server.resolvedUrls is available
    serverClosed,   \* close() of the hosting server was called
    exitCode,       \* process.exitCode, -1 while unset
    childProcess,   \* this.childProcess: 0 or a process
    proc,           \* per process: state and how it ended
    task,           \* per startElectron() call in flight: position and caller
    micro,          \* resolved stopElectron() waiters whose continuation is queued
    closePc,        \* "idle", "stopping", "base", "closed"
    closeCalls,     \* close() calls so far
    destroys,       \* builder.destroy() calls so far
    \* --- listen
    listenRet,      \* how listen() returned: "none", "resolved", "rejected"
    firstStart,     \* the startElectron() of listen: "none", "pending", "spawned",
                    \* "nourl" (no server URL), "spawnfail" (spawn failed)
    \* --- the init() of the session that replaces this one
    hoPc,           \* "none", "stopping" (awaits stopElectron() of this session),
                    \* "creating" (its builder is being created), "built"
    \* --- the functions of the module, taken one call at a time
    call,           \* the function called and its arguments
    ret             \* what the call returned

bvars == <<initPc, cur, initError, watch, attached, runningBuilds, builder, rebuilds,
          firstEnded, firstFailed>>
dvars == <<timers, sinceNotify, notifies, fires, burstN, burstFired, firedAt, farApart>>
hvars == <<server, listenPc, resolvedUrls, serverClosed, exitCode>>
pvars == <<childProcess, proc, task, micro>>
cvars == <<closePc, closeCalls, destroys>>
lvars == <<listenRet, firstStart>>
nvars == <<hoPc>>
xvars == <<call, ret>>
svars == <<bvars, dvars, hvars, pvars, cvars, lvars, nvars>>
vars == <<svars, xvars>>

NoProc == [st |-> "unborn", by |-> "none", kills |-> 0, waiter |-> 0,
           exit |-> "none", serving |-> FALSE]
NoTask == [pc |-> "free", origin |-> "none"]

\* no function is called
NoCall == [fn |-> "none"]
NoRet == [fn |-> "none"]

\* the session after construction
SessionInit ==
    /\ initPc = "new" /\ cur = 0 /\ initError = "none"
    /\ watch = [t \in Targets |-> "off"]
    /\ attached = FALSE /\ runningBuilds = 0 /\ builder = FALSE /\ rebuilds = 0
    /\ firstEnded = {} /\ firstFailed = {}
    /\ timers = <<>> /\ sinceNotify = -1 /\ notifies = 0 /\ fires = 0
    /\ burstN = 0 /\ burstFired = 0 /\ firedAt = -1 /\ farApart = TRUE
    /\ server = "none" /\ listenPc = "idle" /\ resolvedUrls = FALSE
    /\ serverClosed = FALSE /\ exitCode = -1
    /\ childProcess = 0
    /\ proc = [p \in Procs |-> NoProc]
    /\ task = [t \in Tasks |-> NoTask]
    /\ micro = <<>>
    /\ closePc = "idle" /\ closeCalls = 0 /\ destroys = 0
    /\ listenRet = "none" /\ firstStart = "none"
    /\ hoPc = "none"

Init == SessionInit /\ call = NoCall /\ ret = NoRet

Alive == {p \in Procs : proc[p].st = "alive"}
Spawned == {p \in Procs : proc[p].st # "unborn"}
Building(w) == {t \in Targets : w[t] \in {"run", "err"}}


(* ----------------------- the reload timer (init) ----------------------- *)

\* clearTimeout(reloadTimeout): reloadTimeout is the timeout scheduled last,
\* which, when still pending, is the youngest of the pending ones
ClearTimeout(ts) == IF ts = <<>> THEN ts ELSE SubSeq(ts, 1, Len(ts) - 1)

\* a bug: the pending timeout is not cleared
RescheduleStacked(ts) == Append(ts, ReloadDelay)

\* a bug: a timeout is scheduled only while none was ever scheduled
RescheduleOnce(ts) == IF notifies = 0 THEN Append(ClearTimeout(ts), ReloadDelay) ELSE ClearTimeout(ts)

\* clearTimeout(reloadTimeout); reloadTimeout = setTimeout(..., 500)
Reschedule(ts) == Append(ClearTimeout(ts), ReloadDelay)

\* the callback given to createElectronBuilder: onBuildComplete()
OnBuildComplete ==
    /\ timers' = Reschedule(timers)
    /\ notifies' = notifies + 1
    /\ sinceNotify' = 0
    /\ farApart' = (farApart /\ (sinceNotify = -1 \/ sinceNotify > ReloadDelay))
    /\ IF sinceNotify = -1 \/ sinceNotify >= ReloadDelay
         THEN burstN' = 1 /\ burstFired' = 0 /\ firedAt' = -1
         ELSE burstN' = 2 /\ UNCHANGED <<burstFired, firedAt>>
    /\ fires' = fires

(* ------------------------ createElectronBuilder ------------------------ *)

\* a bug: an error of a first build is not reported
FirstBuildErrorIgnored(t) ==
    UNCHANGED <<initPc, initError>>

\* the listener of the first run, event ERROR: reject(event.error)
FirstBuildError(t) ==
    /\ initPc' = "rejected"
    /\ initError' = t

\* the listener of the first run, event END: resolve(watcher); the loop goes
\* on to the next environment, and after the last one the listeners are
\* attached, the builder is returned and init() resolves
FirstBuildEnd(t) ==
    IF cur < Len(TargetOrder)
      THEN /\ cur' = cur + 1
           /\ watch' = [watch EXCEPT ![t] = "idle", ![TargetOrder[cur + 1]] = "run"]
           /\ UNCHANGED <<initPc, attached, runningBuilds, builder>>
      ELSE /\ attached' = TRUE /\ runningBuilds' = 0 /\ builder' = TRUE
           /\ initPc' = "done"
           /\ cur' = cur
           /\ watch' = [watch EXCEPT ![t] = "idle"]

\* the first build of t is the one init() awaits
Awaited(t) == initPc = "building" /\ TargetOrder[cur] = t

\* init(): createElectronBuilder() starts the build of the first environment
InitCall ==
    /\ micro = <<>>
    /\ initPc = "new"
    /\ initPc' = "building"
    /\ cur' = 1
    /\ watch' = [watch EXCEPT ![TargetOrder[1]] = "run"]
    /\ UNCHANGED <<initError, attached, runningBuilds, builder, rebuilds,
                   firstEnded, firstFailed>>
    /\ UNCHANGED <<dvars, hvars, pvars, cvars>>
    /\ UNCHANGED lvars
    /\ UNCHANGED nvars
    /\ UNCHANGED xvars

\* a watcher starts a rebuild: event START
BuildStart(t) ==
    /\ micro = <<>>
    /\ watch[t] = "idle"
    /\ rebuilds < MaxRebuilds
    /\ rebuilds' = rebuilds + 1
    /\ watch' = [watch EXCEPT ![t] = "run"]
    /\ runningBuilds' = IF attached THEN runningBuilds + 1 ELSE runningBuilds
    /\ UNCHANGED <<initPc, cur, initError, attached, builder, firstEnded, firstFailed>>
    /\ UNCHANGED <<dvars, hvars, pvars, cvars>>
    /\ UNCHANGED lvars
    /\ UNCHANGED nvars
    /\ UNCHANGED xvars

\* a build fails: event ERROR
BuildError(t) ==
    /\ micro = <<>>
    /\ watch[t] = "run"
    /\ IF Awaited(t)
         THEN FirstBuildError(t)
         ELSE UNCHANGED <<initPc, initError>>
    /\ watch' = [watch EXCEPT ![t] = "err"]
    /\ firstFailed' = IF t \in firstEnded THEN firstFailed ELSE firstFailed \cup {t}
    /\ UNCHANGED <<cur, attached, runningBuilds, builder, rebuilds, firstEnded>>
    /\ UNCHANGED <<dvars, hvars, pvars, cvars>>
    /\ UNCHANGED lvars
    /\ UNCHANGED nvars
    /\ UNCHANGED xvars

\* a build cycle ends: event END
BuildEnd(t) ==
    /\ micro = <<>>
    /\ watch[t] \in {"run", "err"}
    /\ IF Awaited(t)
         THEN /\ FirstBuildEnd(t)
              /\ UNCHANGED dvars
         ELSE /\ watch' = [watch EXCEPT ![t] = "idle"]
              /\ runningBuilds' = IF attached THEN runningBuilds - 1 ELSE runningBuilds
              /\ IF attached /\ runningBuilds - 1 = 0
                   THEN OnBuildComplete
                   ELSE UNCHANGED dvars
              /\ UNCHANGED <<initPc, cur, attached, builder>>
    /\ firstEnded' = firstEnded \cup {t}
    /\ UNCHANGED <<initError, rebuilds, firstFailed>>
    /\ UNCHANGED <<hvars, pvars, cvars>>
    /\ UNCHANGED lvars
    /\ UNCHANGED nvars
    /\ UNCHANGED xvars


(* ------------------- startElectron / stopElectron ---------------------- *)

\* a bug: the early return of a stop without child process is missing, and
\* the stop waits for a 'close' event that never comes
StopElectronUnguarded(w, by) ==
    /\ childProcess' = 0
    /\ proc' = IF childProcess = 0 THEN proc
               ELSE [proc EXCEPT ![childProcess].by = by,
                                 ![childProcess].kills = @ + 1,
                                 ![childProcess].waiter = w]
    /\ micro' = micro

\* a bug: stopElectron() resolves without waiting for 'close'
StopElectronNoWait(w, by) ==
    /\ micro' = Append(micro, w)
    /\ IF childProcess = 0
         THEN UNCHANGED <<childProcess, proc>>
         ELSE /\ proc' = [proc EXCEPT ![childProcess].by = by,
                                      ![childProcess].kills = @ + 1]
              /\ childProcess' = 0

\* stopElectron(), called by w on behalf of by ("listen", "reload" or
\* "close"): without child process it resolves; else it listens for
\* 'close', sends SIGTERM and deletes this.childProcess
StopElectron(w, by) ==
    IF childProcess = 0
      THEN /\ micro' = Append(micro, w)
           /\ UNCHANGED <<childProcess, proc>>
      ELSE /\ proc' = [proc EXCEPT ![childProcess].by = by,
                                   ![childProcess].kills = @ + 1,
                                   ![childProcess].waiter = w]
           /\ childProcess' = 0
           /\ micro' = micro

FreeTasks == {t \in Tasks : task[t].pc = "free"}

\* startElectron() is called by origin ("listen" or "reload"): it runs up to
\* its first await, inside stopElectron()
StartElectron(origin) ==
    /\ FreeTasks # {}
    /\ LET t == CHOOSE x \in FreeTasks : \A y \in FreeTasks : x <= y IN
         /\ task' = [task EXCEPT ![t] = [pc |-> "stopping", origin |-> origin]]
         /\ StopElectron(t, origin)

\* a bug: the failure of startElectron() is logged and nothing else
CatchSwallow(origin) == UNCHANGED <<exitCode, server, serverClosed>>

\* a bug: the startElectron() of the reload timeout has no catch()
CatchListenOnly(origin) ==
    IF origin = "listen"
      THEN exitCode' = 1 /\ server' = "none" /\ serverClosed' = TRUE
      ELSE UNCHANGED <<exitCode, server, serverClosed>>

\* the catch() of the reload timer (lines 260-264) and of listen (276-281)
Catch(origin) ==
    /\ exitCode' = 1
    /\ IF origin = "listen"
         THEN /\ server' = "none"
              /\ serverClosed' = TRUE
         ELSE /\ server' = server
              /\ serverClosed' = (serverClosed \/ server = "set")

\* how the startElectron() of listen went, once the one of origin has ended
FirstStartIs(origin, how) == IF origin = "listen" THEN how ELSE firstStart

\* a bug: startElectron() goes on to the spawn without looking at the URL
StartResumeNoUrlCheck(t) ==
    /\ task[t].pc = "stopping"
    /\ task' = [task EXCEPT ![t].pc = "importing"]
    /\ UNCHANGED <<server, serverClosed, exitCode, firstStart>>

\* startElectron() goes on after stopElectron(): it fails without server
\* URL (lines 159-160), else it awaits the import of 'electron'
StartResume(t) ==
    /\ task[t].pc = "stopping"
    /\ IF server = "set" /\ resolvedUrls
         THEN /\ task' = [task EXCEPT ![t].pc = "importing"]
              /\ UNCHANGED <<server, serverClosed, exitCode, firstStart>>
         ELSE /\ task' = [task EXCEPT ![t] = NoTask]
              /\ firstStart' = FirstStartIs(task[t].origin, "nourl")
              /\ Catch(task[t].origin)

\* spawn() of lines 170-185 and its 'spawn' or 'error' event: the child is
\* assigned to this.childProcess, or startElectron() rejects
Spawn(t) ==
    /\ micro = <<>>
    /\ task[t].pc = "importing"
    /\ task' = [task EXCEPT ![t] = NoTask]
    /\ \/ /\ Cardinality(Spawned) < MaxProcs
          /\ LET p == Cardinality(Spawned) + 1 IN
               /\ proc' = [proc EXCEPT ![p].st = "alive"]
               /\ childProcess' = p
          /\ firstStart' = FirstStartIs(task[t].origin, "spawned")
          /\ UNCHANGED <<server, serverClosed, exitCode>>
       \/ /\ Catch(task[t].origin)
          /\ firstStart' = FirstStartIs(task[t].origin, "spawnfail")
          /\ UNCHANGED <<childProcess, proc>>
    /\ UNCHANGED <<listenPc, resolvedUrls, micro, listenRet>>
    /\ UNCHANGED <<bvars, dvars, cvars>>
    /\ UNCHANGED nvars
    /\ UNCHANGED xvars

ExitKind(o) == IF o.signal # "" THEN "signal" ELSE IF o.code # 0 THEN "code" ELSE "zero"

\* how process p is recorded once its 'close' event was handled
Closed(p, o) ==
    [proc EXCEPT ![p].st = "closed", ![p].waiter = 0,
                 ![p].exit = ExitKind(o), ![p].serving = (server = "set")]

\* a bug: a child that exits with code 0 does not end the session
OnCloseZeroIgnored(p, o) ==
    /\ exitCode' = IF o.signal # "" THEN 1
                   ELSE IF o.code # 0 THEN (IF o.code = 0 THEN 1 ELSE o.code)
                   ELSE exitCode
    /\ serverClosed' = (serverClosed \/ (server = "set" /\ ExitKind(o) # "zero"))
    /\ proc' = Closed(p, o)

\* a bug: a child that exits with a non-zero code is taken for a clean exit
OnCloseCodeIgnored(p, o) ==
    /\ exitCode' = IF o.signal # "" THEN 1
                   ELSE IF server = "set" THEN 0
                   ELSE exitCode
    /\ serverClosed' = (serverClosed \/ server = "set")
    /\ proc' = Closed(p, o)

\* a bug: the hosting server is closed through a reference kept apart from
\* this.server
OnCloseKeptServer(p, o) ==
    /\ exitCode' = IF o.signal # "" THEN 1
                   ELSE IF o.code # 0 THEN (IF o.code = 0 THEN 1 ELSE o.code)
                   ELSE IF server = "set" THEN 0
                   ELSE exitCode
    /\ serverClosed' = (serverClosed \/ listenPc \in {"waiting", "fired"})
    /\ proc' = Closed(p, o)

\* the 'close' listener of the child (lines 190-213), for code and signal o
OnClose(p, o) ==
    /\ exitCode' = IF o.signal # "" THEN 1
                   ELSE IF o.code # 0 THEN (IF o.code = 0 THEN 1 ELSE o.code)
                   ELSE IF server = "set" THEN 0
                   ELSE exitCode
    /\ serverClosed' = (serverClosed \/ server = "set")
    /\ proc' = Closed(p, o)

\* a bug: the 'close' listener unsets this.childProcess whatever it is
CloseEventClearsAny(p, o) ==
    /\ micro = <<>>
    /\ proc[p].st = "alive"
    /\ OnClose(p, o)
    /\ childProcess' = 0
    /\ micro' = IF proc[p].waiter # 0 THEN Append(micro, proc[p].waiter) ELSE micro
    /\ UNCHANGED <<server, listenPc, resolvedUrls, task>>
    /\ UNCHANGED <<bvars, dvars, cvars>>
    /\ UNCHANGED lvars
    /\ UNCHANGED nvars
    /\ UNCHANGED xvars

\* the child p ends: its 'close' event runs the listener of startElectron()
\* and then the one of a stopElectron() waiting for it, which resolves
CloseEvent(p, o) ==
    /\ micro = <<>>
    /\ proc[p].st = "alive"
    /\ OnClose(p, o)
    /\ childProcess' = IF childProcess = p THEN 0 ELSE childProcess
    /\ micro' = IF proc[p].waiter # 0 THEN Append(micro, proc[p].waiter) ELSE micro
    /\ UNCHANGED <<server, listenPc, resolvedUrls, task>>
    /\ UNCHANGED <<bvars, dvars, cvars>>
    /\ UNCHANGED lvars
    /\ UNCHANGED nvars
    /\ UNCHANGED xvars

(* ------------------------- the reload timer ---------------------------- *)

\* time passes, unless a timeout is due
Tick ==
    /\ micro = <<>>
    /\ \A i \in 1..Len(timers) : timers[i] > 0
    /\ timers # <<>> \/ (sinceNotify >= 0 /\ sinceNotify < TimeCap)
    /\ timers' = [i \in 1..Len(timers) |-> timers[i] - TimeStep]
    /\ sinceNotify' = IF sinceNotify < 0 \/ sinceNotify >= TimeCap
                        THEN sinceNotify ELSE sinceNotify + TimeStep
    /\ UNCHANGED <<notifies, fires, burstN, burstFired, firedAt, farApart>>
    /\ UNCHANGED <<bvars, hvars, pvars, cvars>>
    /\ UNCHANGED lvars
    /\ UNCHANGED nvars
    /\ UNCHANGED xvars

\* the reload timeout fires: this.startElectron().catch(...)
TimerFire ==
    /\ micro = <<>>
    /\ timers # <<>> /\ Head(timers) = 0
    /\ timers' = Tail(timers)
    /\ fires' = fires + 1
    /\ burstFired' = burstFired + 1
    /\ firedAt' = sinceNotify
    /\ StartElectron("reload")
    /\ UNCHANGED <<sinceNotify, notifies, burstN, farApart>>
    /\ UNCHANGED <<bvars, hvars, cvars>>
    /\ UNCHANGED lvars
    /\ UNCHANGED nvars
    /\ UNCHANGED xvars


(* --------------------------- listen / close ---------------------------- *)

\* a bug: the server is recorded before httpServer is looked at
ListenNoCheck(http) ==
    /\ micro = <<>>
    /\ initPc = "done" /\ listenPc = "idle" /\ closePc = "idle"
    /\ server' = "set"
    /\ IF http
         THEN listenPc' = "waiting" /\ listenRet' = "resolved"
         ELSE listenPc' = "rejected" /\ listenRet' = "rejected"
    /\ UNCHANGED <<resolvedUrls, serverClosed, exitCode, firstStart>>
    /\ UNCHANGED <<bvars, dvars, pvars, cvars>>
    /\ UNCHANGED nvars
    /\ UNCHANGED xvars

\* listen(server), called by the host once init() has resolved: it throws
\* without httpServer, else it records the server, registers the callback
\* of 'listening' and returns what super.listen(server) returns
Listen(http) ==
    /\ micro = <<>>
    /\ initPc = "done" /\ listenPc = "idle" /\ closePc = "idle"
    /\ IF http
         THEN server' = "set" /\ listenPc' = "waiting" /\ listenRet' = "resolved"
         ELSE server' = server /\ listenPc' = "rejected" /\ listenRet' = "rejected"
    /\ UNCHANGED <<resolvedUrls, serverClosed, exitCode, firstStart>>
    /\ UNCHANGED <<bvars, dvars, pvars, cvars>>
    /\ UNCHANGED nvars
    /\ UNCHANGED xvars

\* the host resolves the URLs of the listening server
ResolveUrls ==
    /\ micro = <<>>
    /\ listenPc \in {"waiting", "fired"} /\ ~resolvedUrls
    /\ resolvedUrls' = TRUE
    /\ UNCHANGED <<server, listenPc, serverClosed, exitCode>>
    /\ UNCHANGED <<bvars, dvars, pvars, cvars>>
    /\ UNCHANGED lvars
    /\ UNCHANGED nvars
    /\ UNCHANGED xvars

\* the 'listening' event of the http server: the first startElectron()
Listening ==
    /\ micro = <<>>
    /\ listenPc = "waiting" /\ closePc = "idle"
    /\ listenPc' = "fired"
    /\ firstStart' = "pending"
    /\ UNCHANGED listenRet
    /\ StartElectron("listen")
    /\ UNCHANGED <<server, resolvedUrls, serverClosed, exitCode>>
    /\ UNCHANGED <<bvars, dvars, cvars>>
    /\ UNCHANGED nvars
    /\ UNCHANGED xvars

\* close(), called by the host: delete this.server, then stopElectron()
Close ==
    /\ micro = <<>>
    /\ initPc = "done"
    /\ closePc \in {"idle", "closed"}
    /\ closeCalls < MaxCloses
    /\ closeCalls' = closeCalls + 1
    /\ closePc' = "stopping"
    /\ UNCHANGED destroys
    /\ server' = "none"
    /\ StopElectron(CloseWaiter, "close")
    /\ UNCHANGED <<listenPc, resolvedUrls, serverClosed, exitCode, task>>
    /\ UNCHANGED <<bvars, dvars>>
    /\ UNCHANGED lvars
    /\ UNCHANGED nvars
    /\ UNCHANGED xvars

\* a bug: destroy() leaves the watchers open and their listeners attached
StopBuilderLeavesWatchers ==
    IF builder
      THEN /\ builder' = FALSE
           /\ destroys' = destroys + 1
           /\ UNCHANGED <<initPc, cur, initError, watch, attached, runningBuilds,
                          rebuilds, firstEnded, firstFailed>>
      ELSE UNCHANGED <<bvars, destroys>>

\* stopBuilder(): nothing without builder, else destroy() removes the
\* listeners of every watcher and closes it, and this.builder is unset
StopBuilder ==
    IF builder
      THEN /\ watch' = [t \in Targets |-> "closed"]
           /\ attached' = FALSE
           /\ builder' = FALSE
           /\ destroys' = destroys + 1
           /\ UNCHANGED <<initPc, cur, initError, runningBuilds, rebuilds,
                          firstEnded, firstFailed>>
      ELSE UNCHANGED <<bvars, destroys>>

\* close() goes on after stopElectron(): stopBuilder(), then super.close()
CloseResume ==
    /\ closePc = "stopping"
    /\ closePc' = "base"
    /\ StopBuilder
    /\ UNCHANGED <<closeCalls, task, server, serverClosed, exitCode, firstStart>>

\* the init() of the next session goes on after the stopElectron() of this
\* one: previousInstance.stopBuilder(), then it creates its own builder
HandoffResume ==
    /\ hoPc' = "creating"
    /\ StopBuilder
    /\ UNCHANGED <<closePc, closeCalls, task, server, serverClosed, exitCode, firstStart>>

\* the continuation of the stopElectron() that resolved first runs
Resume ==
    /\ micro # <<>>
    /\ micro' = Tail(micro)
    /\ IF Head(micro) = CloseWaiter
         THEN CloseResume /\ UNCHANGED hoPc
         ELSE IF Head(micro) = HandoffWaiter
         THEN HandoffResume
         ELSE /\ StartResume(Head(micro))
              /\ UNCHANGED <<bvars, cvars, hoPc>>
    /\ UNCHANGED <<listenPc, resolvedUrls, childProcess, proc, listenRet>>
    /\ UNCHANGED dvars
    /\ UNCHANGED xvars

\* super.close() has completed: close() resolves
CloseDone ==
    /\ micro = <<>>
    /\ closePc = "base"
    /\ closePc' = "closed"
    /\ UNCHANGED <<closeCalls, destroys>>
    /\ UNCHANGED <<bvars, dvars, hvars, pvars>>
    /\ UNCHANGED lvars
    /\ UNCHANGED nvars
    /\ UNCHANGED xvars

\* the host replaces this session: the init() of the next one is called with
\* this one as previousInstance and calls its stopElectron()
HandOff ==
    /\ micro = <<>>
    /\ initPc = "done" /\ closePc = "idle" /\ hoPc = "none"
    /\ hoPc' = "stopping"
    /\ StopElectron(HandoffWaiter, "handoff")
    /\ UNCHANGED task
    /\ UNCHANGED <<bvars, dvars, hvars, cvars, lvars>>
    /\ UNCHANGED xvars

\* createElectronBuilder() of the next session returns: its watches exist
\* and its builder is set
NewBuilder ==
    /\ micro = <<>>
    /\ hoPc = "creating"
    /\ hoPc' = "built"
    /\ UNCHANGED <<bvars, dvars, hvars, pvars, cvars, lvars>>
    /\ UNCHANGED xvars

Next ==
    \/ InitCall
    \/ \E t \in Targets : BuildStart(t)
    \/ \E t \in Targets : BuildError(t)
    \/ \E t \in Targets : BuildEnd(t)
    \/ Tick
    \/ TimerFire
    \/ \E http \in BOOLEAN : Listen(http)
    \/ ResolveUrls
    \/ Listening
    \/ \E t \in Tasks : Spawn(t)
    \/ \E p \in Procs, o \in ExitOutcomes : CloseEvent(p, o)
    \/ Close
    \/ Resume
    \/ CloseDone

Spec == Init /\ [][Next]_vars

\* the session and the session that replaces it
NextHandoff ==
    \/ Next
    \/ HandOff
    \/ NewBuilder

SpecHandoff == Init /\ [][NextHandoff]_vars


(* ---------------- the environment of the Electron process -------------- *)

\* what startElectron() finds in this.server: unset, set without resolved
\* URLs, and set with the local URLs listed
Servers ==
    { [set |-> FALSE, resolved |-> FALSE, local |-> <<>>],
      [set |-> TRUE, resolved |-> FALSE, local |-> <<>>],
      [set |-> TRUE, resolved |-> TRUE, local |-> <<>>],
      [set |-> TRUE, resolved |-> TRUE, local |-> <<"http://localhost:5173/">>],
      [set |-> TRUE, resolved |-> TRUE,
       local |-> <<"http://localhost:5173/", "http://127.0.0.1:5173/">>] }

\* build.rollupOptions.input of the configuration: absent, a string, an
\* array, or an object, of which v lists the values in key order
ConfigInputs ==
    { [t |-> "absent", v |-> <<>>],
      [t |-> "string", v |-> <<"">>],
      [t |-> "string", v |-> <<"index.html">>],
      [t |-> "array", v |-> <<>>],
      [t |-> "array", v |-> <<"index.html", "other.html">>],
      [t |-> "object", v |-> <<>>],
      [t |-> "object", v |-> <<"main.html", "index.html">>] }

\* process.env: without ELECTRON_RENDERER_URL, with an empty one, with one
\* left by an earlier run
ProcessEnvs ==
    { [PATH |-> "/bin"],
      [PATH |-> "/bin", ELECTRON_RENDERER_URL |-> ""],
      [PATH |-> "/bin", ELECTRON_RENDERER_URL |-> "http://stale:1/"] }

\* this.server?.resolvedUrls?.local[0], "" when there is none
ServerUrl(srv) ==
    IF srv.set /\ srv.resolved /\ srv.local # <<>> THEN srv.local[1] ELSE ""

\* the input served first: the string, the first entry of the array or the
\* first value of the object, "" when there is none
ServerPath(input) ==
    IF input.t = "absent" \/ input.v = <<>> THEN "" ELSE input.v[1]

\* new URL(path, base).href, for a base that ends with "/" and a path that
\* is empty or a relative file name
Href(path, base) == base \o path

\* a bug: the inherited variables are spread after ELECTRON_RENDERER_URL
SpawnEnvInherited(penv, url) ==
    [k \in DOMAIN penv \cup {"ELECTRON_RENDERER_URL"} |->
        IF k \in DOMAIN penv THEN penv[k] ELSE url]

\* { ...process.env, ELECTRON_RENDERER_URL: url }
SpawnEnv(penv, url) ==
    [k \in DOMAIN penv \cup {"ELECTRON_RENDERER_URL"} |->
        IF k = "ELECTRON_RENDERER_URL" THEN url ELSE penv[k]]

\* lines 158-173 of startElectron(): it throws without server URL, else it
\* spawns Electron with the environment returned here
StartEnv(c) ==
    IF ServerUrl(c.srv) = ""
      THEN [fn |-> "startEnv", threw |-> TRUE]
      ELSE [fn |-> "startEnv", threw |-> FALSE,
            env |-> SpawnEnv(c.penv, Href(ServerPath(c.input), ServerUrl(c.srv)))]

StartEnvCalls ==
    { [fn |-> "startEnv", srv |-> s, input |-> i, penv |-> e] :
        s \in Servers, i \in ConfigInputs, e \in ProcessEnvs }

ApplyStartEnv ==
    /\ call.fn = "startEnv" /\ ret.fn = "none"
    /\ ret' = StartEnv(call)
    /\ UNCHANGED <<call, svars>>


(* ------------------------ the external predicate ----------------------- *)

\* the longest module id tried
MaxIdLen == 2

\* module ids, as sequences of characters
IdChars == {"/", ".", "a"}
Ids == UNION {[1..n -> IdChars] : n \in 0..MaxIdLen}

\* id.startsWith(c), for a single character c
StartsWith(id, c) == Len(id) >= 1 /\ id[1] = c

\* a bug: relative paths are not looked for
ExternalNoDot(id, isResolved) ==
    IF isResolved THEN FALSE
    ELSE IF StartsWith(id, "/") THEN FALSE
    ELSE TRUE

\* libDefaults.build.rollupOptions.external
External(id, isResolved) ==
    IF isResolved THEN FALSE
    ELSE IF StartsWith(id, "/") THEN FALSE
    ELSE IF StartsWith(id, ".") THEN FALSE
    ELSE TRUE

ExternalCalls ==
    { [fn |-> "external", id |-> i, isResolved |-> r] : i \in Ids, r \in BOOLEAN }

ApplyExternal ==
    /\ call.fn = "external" /\ ret.fn = "none"
    /\ ret' = [fn |-> "external", val |-> External(call.id, call.isResolved)]
    /\ UNCHANGED <<call, svars>>


(* ------------------------ configuration helpers ----------------------- *)

\* a configuration value: an object with its keys, or a string, an array of
\* strings, a function (by name), null, or undefined; true and false are
\* written as strings
Obj(f) == [t |-> "obj", v |-> <<>>, kids |-> f]
Str(x) == [t |-> "str", v |-> <<x>>, kids |-> <<>>]
Arr(a) == [t |-> "arr", v |-> a, kids |-> <<>>]
Fn(name) == [t |-> "fn", v |-> <<name>>, kids |-> <<>>]
Null == [t |-> "null", v |-> <<>>, kids |-> <<>>]
Undefined == [t |-> "undefined", v |-> <<>>, kids |-> <<>>]
NoKeys == <<>>

\* arraify(x) of mergeConfig, for a string or an array of strings
Arraify(x) == x.v

\* mergeConfig(defaults, overrides) of vite (imported at line 10), for
\* objects without the keys vite treats apart: a null override is skipped, a
\* key the defaults lack or hold null for is taken from the overrides, arrays
\* are concatenated, objects are merged key by key, and any other override
\* replaces the default
RECURSIVE MergeConfig(_, _)
MergeConfig(defaults, overrides) ==
    LET given == {k \in DOMAIN overrides.kids : overrides.kids[k].t # "null"} IN
    Obj([k \in DOMAIN defaults.kids \cup given |->
          IF k \notin given THEN defaults.kids[k]
          ELSE IF k \notin DOMAIN defaults.kids \/ defaults.kids[k].t = "null"
            THEN overrides.kids[k]
          ELSE IF defaults.kids[k].t = "arr" \/ overrides.kids[k].t = "arr"
            THEN Arr(Arraify(defaults.kids[k]) \o Arraify(overrides.kids[k]))
          ELSE IF defaults.kids[k].t = "obj" /\ overrides.kids[k].t = "obj"
            THEN MergeConfig(defaults.kids[k], overrides.kids[k])
          ELSE overrides.kids[k]])

\* a parameter with a default value
OrDefault(x, d) == IF x.t = "undefined" THEN d ELSE x

LibDefaults ==
    Obj([consumer |-> Str("client"),
         build |-> Obj([lib |-> Obj([entry |-> Str("index"),
                                     fileName |-> Fn("fileName")]),
                        rollupOptions |-> Obj([external |-> Fn("external")])])])

MainDefaults ==
    MergeConfig(LibDefaults,
        Obj([build |-> Obj([lib |-> Obj([formats |-> Arr(<<"es">>),
                                         entry |-> Str("src/main/index")]),
                            outDir |-> Str("out/main")])]))

PreloadDefaults ==
    MergeConfig(LibDefaults,
        Obj([build |-> Obj([lib |-> Obj([formats |-> Arr(<<"cjs">>),
                                         entry |-> Str("src/preload/index")]),
                            outDir |-> Str("out/preload")])]))

ClientDefaults ==
    Obj([build |-> Obj([rollupOptions |-> Obj([input |-> Str("index.html")]),
                        outDir |-> Str("out/renderer")]),
         dev |-> Obj([createEnvironment |-> Fn("createEnvironment")])])

\* a bug: the outDir argument is not used
CreateElectronMainEnvironmentNoOutDir(entryOrOptions, outDir) ==
    LET e == OrDefault(entryOrOptions, Str("src/main/index")) IN
    MergeConfig(MainDefaults,
        IF e.t = "str" THEN Obj([build |-> Obj([lib |-> Obj([entry |-> e])])]) ELSE e)

CreateElectronMainEnvironment(entryOrOptions, outDir) ==
    LET e == OrDefault(entryOrOptions, Str("src/main/index"))
        o == OrDefault(outDir, Str("out/main")) IN
    MergeConfig(MainDefaults,
        IF e.t = "str"
          THEN Obj([build |-> Obj([lib |-> Obj([entry |-> e]), outDir |-> o])])
          ELSE e)

CreateElectronPreloadEnvironment(entryOrOptions, outDir) ==
    LET e == OrDefault(entryOrOptions, Str("src/preload/index"))
        o == OrDefault(outDir, Str("out/preload")) IN
    MergeConfig(PreloadDefaults,
        IF e.t = "str"
          THEN Obj([build |-> Obj([lib |-> Obj([entry |-> e]), outDir |-> o])])
          ELSE e)

CreateElectronClientEnvironment(entryOrOptions, outDir) ==
    LET e == OrDefault(entryOrOptions, Str("index.html"))
        o == OrDefault(outDir, Str("out/renderer")) IN
    MergeConfig(ClientDefaults,
        IF e.t = "str"
          THEN Obj([build |-> Obj([rollupOptions |-> Obj([input |-> e]), outDir |-> o])])
          ELSE e)

\* the environment options the three functions are tried with
EnvOptions ==
    { Obj(NoKeys),
      Obj([build |-> Obj([sourcemap |-> Str("true")])]),
      Obj([build |-> Obj([outDir |-> Str("dist"), lib |-> Obj([entry |-> Str("x")])])]),
      Obj([build |-> Obj([lib |-> Obj([formats |-> Arr(<<"cjs">>)])])]),
      Obj([consumer |-> Null, build |-> Obj([rollupOptions |-> Obj([input |-> Str("x.html")])])]) }

CreateEnvCalls ==
    { [fn |-> "createEnv", env |-> n, entryOrOptions |-> e, outDir |-> o] :
        n \in {"main", "preload", "client"},
        e \in {Undefined, Str("input"), Str("")} \cup EnvOptions,
        o \in {Undefined, Str("output")} }

ApplyCreateEnv ==
    /\ call.fn = "createEnv" /\ ret.fn = "none"
    /\ ret' = [fn |-> "createEnv",
               cfg |-> IF call.env = "main"
                         THEN CreateElectronMainEnvironment(call.entryOrOptions, call.outDir)
                       ELSE IF call.env = "preload"
                         THEN CreateElectronPreloadEnvironment(call.entryOrOptions, call.outDir)
                       ELSE CreateElectronClientEnvironment(call.entryOrOptions, call.outDir)]
    /\ UNCHANGED <<call, svars>>


ElectronDefaults ==
    Obj([base |-> Str("./"),
         build |-> Obj([minify |-> Str("false"),
                        modulePreload |-> Str("false"),
                        reportCompressedSize |-> Str("false")]),
         environments |-> Obj([client |-> CreateElectronClientEnvironment(Undefined, Undefined),
                               main |-> CreateElectronMainEnvironment(Undefined, Undefined),
                               preload |-> CreateElectronPreloadEnvironment(Undefined, Undefined)]),
         builder |-> Obj([buildApp |-> Fn("buildApp")])])

\* a configuration export is the object c.cfg inside the wrappers c.wraps,
\* outermost first: "function" (a function that returns the rest) and
\* "promise" (a promise that resolves to the rest)

\* a bug: the defaults are merged over the configuration
RECURSIVE DefineElectronConfigDefaultsLast(_)
DefineElectronConfigDefaultsLast(c) ==
    IF c.wraps = <<>>
      THEN [wraps |-> <<>>, cfg |-> MergeConfig(c.cfg, ElectronDefaults)]
      ELSE LET inner == DefineElectronConfigDefaultsLast([wraps |-> Tail(c.wraps), cfg |-> c.cfg]) IN
           [wraps |-> <<Head(c.wraps)>> \o inner.wraps, cfg |-> inner.cfg]

\* defineElectronConfig(config): a function is wrapped in a function that
\* calls it and defines again what it returns, a promise is chained with a
\* then() that defines again what it resolves to, and an object is merged
\* over the defaults
RECURSIVE DefineElectronConfig(_)
DefineElectronConfig(c) ==
    IF c.wraps = <<>>
      THEN [wraps |-> <<>>, cfg |-> MergeConfig(ElectronDefaults, c.cfg)]
      ELSE LET inner == DefineElectronConfig([wraps |-> Tail(c.wraps), cfg |-> c.cfg]) IN
           [wraps |-> <<Head(c.wraps)>> \o inner.wraps, cfg |-> inner.cfg]

\* the user configurations defineElectronConfig() is tried with
UserConfigs ==
    { Obj(NoKeys),
      Obj([build |-> Obj([sourcemap |-> Str("true")]),
           environments |->
             Obj([client |-> Obj([build |-> Obj([rollupOptions |-> Obj([input |-> Str("input.html")])])]),
                  main |-> Obj([build |-> Obj([lib |-> Obj([entry |-> Str("main.ts")])])]),
                  preload |-> Obj([build |-> Obj([lib |-> Obj([entry |-> Str("preload.ts")])])])])]),
      Obj([base |-> Str("/app/"), build |-> Obj([minify |-> Str("true")])]),
      Obj([environments |->
             Obj([main |-> Obj([build |-> Obj([lib |-> Obj([formats |-> Arr(<<"cjs">>)])])])])]),
      Obj([base |-> Null, plugins |-> Arr(<<"vue">>)]) }

\* the shapes of a configuration export: object, function, promise, async
\* function
ConfigShapes == {<<>>, <<"function">>, <<"promise">>, <<"function", "promise">>}

DefineCalls ==
    { [fn |-> "define", wraps |-> w, cfg |-> c] : w \in ConfigShapes, c \in UserConfigs }

ApplyDefine ==
    /\ call.fn = "define" /\ ret.fn = "none"
    /\ ret' = [fn |-> "define", out |-> DefineElectronConfig([wraps |-> call.wraps, cfg |-> call.cfg])]
    /\ UNCHANGED <<call, svars>>


(* ------------------ the functions, one call at a time ------------------ *)

Calls == StartEnvCalls \cup ExternalCalls \cup CreateEnvCalls \cup DefineCalls

InitPure == SessionInit /\ call \in Calls /\ ret = NoRet

NextPure ==
    \/ ApplyStartEnv
    \/ ApplyExternal
    \/ ApplyCreateEnv
    \/ ApplyDefine

SpecPure == InitPure /\ [][NextPure]_vars


(* ------------------------------- claims -------------------------------- *)

\* C1: in every reachable state at most one Electron process is alive: a
\* start issued while a process runs, or while an earlier stop or start is
\* in flight, never spawns a process next to one that has not fully exited
C1_AtMostOneLive == Cardinality(Alive) <= 1

C3_RestartKeepsSession ==
    [][\A p \in Procs :
          ( /\ proc[p].st = "alive" /\ proc[p].by = "reload"
            /\ server = "set"
            /\ proc'[p].st = "closed" /\ proc'[p].exit \in {"signal", "zero"} )
          => (serverClosed' = serverClosed /\ exitCode' = exitCode)]_vars

\* C4: a burst of onBuildComplete() calls, each less than ReloadDelay after
\* the one before, runs the restart exactly once, one ReloadDelay after the
\* last call of the burst
C4_BurstOneRestart ==
    burstN >= 1 =>
        /\ burstFired <= 1
        /\ burstFired = 1 => firedAt = ReloadDelay
        /\ sinceNotify > ReloadDelay => burstFired = 1

\* a burst of two or more calls is over and has run the restart once
C4_Witness ==
    burstN = 2 /\ sinceNotify > ReloadDelay /\ burstFired = 1 /\ fires = 1

\* C5: onBuildComplete() calls that come more than ReloadDelay apart run the
\* restart once each: the earlier timeout has fired and is not cleared
C5_FarApartTwoRestarts ==
    farApart =>
        /\ Len(timers) <= 1
        /\ fires = notifies - Len(timers)
        /\ sinceNotify > ReloadDelay => fires = notifies

\* two calls more than ReloadDelay apart have run the restart twice
C5_Witness ==
    farApart /\ notifies = 2 /\ fires = 2

\* C6: while the session is serving, the end of a rebuild that leaves no
\* build in progress schedules the restart, whatever build events came before
C6_QuietRebuildRestarts ==
    [][\A t \in Targets :
          ( /\ server = "set" /\ attached /\ attached'
            /\ watch[t] \in {"run", "err"} /\ watch'[t] = "idle"
            /\ Building(watch') = {} )
          => (notifies' = notifies + 1 /\ timers' # <<>>)]_vars

C8_AbnormalExitEndsSession ==
    [][\A p \in Procs :
          ( /\ proc[p].st = "alive" /\ proc'[p].st = "closed"
            /\ proc'[p].exit \in {"signal", "code"} )
          => ( /\ exitCode' > 0
               /\ server = "set" => serverClosed'
               /\ Spawned' = Spawned /\ Alive' = Alive \ {p}
               /\ task' = task /\ timers' = timers )]_vars

\* a process that nobody stopped has exited with a non-zero code while serving
C8_Witness ==
    \E p \in Procs :
        /\ proc[p].st = "closed" /\ proc[p].exit = "code"
        /\ proc[p].by = "none" /\ proc[p].serving
        /\ exitCode > 0 /\ serverClosed

\* a step in which stopElectron() is called: by a startElectron() that
\* begins, or by close()
StopCalled ==
    \/ closeCalls' # closeCalls
    \/ \E t \in Tasks : task[t].pc = "free" /\ task'[t].pc = "stopping"

\* C9: stopElectron() without child process resolves at once, sends no
\* signal and changes nothing; with a child process it waits for it; and a
\* caller awaiting stopElectron() only goes on when it has resolved
C9_StopWithoutProcess ==
    [][ /\ (StopCalled /\ childProcess = 0) =>
              /\ proc' = proc /\ childProcess' = 0
              /\ exitCode' = exitCode /\ serverClosed' = serverClosed
              /\ UNCHANGED bvars
              /\ Len(micro') = Len(micro) + 1
        /\ (StopCalled /\ childProcess # 0) =>
              /\ proc'[childProcess].waiter # 0
              /\ proc'[childProcess].kills = 1
              /\ micro' = micro
        /\ \A t \in Tasks :
              (task[t].pc = "stopping" /\ task'[t] # task[t]) =>
                  (micro # <<>> /\ Head(micro) = t) ]_vars

\* stopElectron() was called without child process after a process had
\* been spawned and had ended, and it has resolved
C9_Witness ==
    /\ childProcess = 0
    /\ \E p \in Procs : proc[p].st = "closed" /\ proc[p].kills = 0
    /\ \E t \in Tasks : task[t].pc = "stopping" /\ task[t].origin = "reload"
    /\ micro # <<>>

\* C10: after two close() calls have completed, the teardown of the process
\* and of the watches has run at most once and no process is alive
C10_CloseIdempotent ==
    (closeCalls >= 2 /\ closePc = "closed") =>
        /\ Alive = {}
        /\ destroys <= 1
        /\ \A p \in Procs : proc[p].kills <= 1

\* C12 as stated: when the first start fails because the spawn fails, the
\* listen() call rejects
C12_ListenRejectsOnSpawnFailure == firstStart = "spawnfail" => listenRet = "rejected"

\* C12 as amended: when the first start fails because the spawn fails, the
\* listen() call has returned without error; the failure is caught by the
\* callback of 'listening', which sets a non-zero exit status and closes the
\* hosting server
C12_SpawnFailureIsCaught ==
    firstStart = "spawnfail" =>
        /\ listenRet = "resolved"
        /\ exitCode >= 1
        /\ serverClosed

\* the spawn of the first start has failed
C12_Witness == firstStart = "spawnfail" /\ Spawned = {}

\* C13: once the first start performed by listen has failed, the recorded
\* server is cleared, the exit status is non-zero, the hosting server was
\* closed and the session holds no process handle
C13_FirstStartFailure ==
    firstStart \in {"nourl", "spawnfail"} =>
        /\ server = "none"
        /\ exitCode >= 1
        /\ serverClosed
        /\ childProcess = 0

\* C14: a listen() without httpServer fails: the server is not recorded, no
\* callback of 'listening' is registered and no startElectron() is ever made
\* on behalf of that call
C14_ListenWithoutHttpServer ==
    listenRet = "rejected" =>
        /\ server = "none"
        /\ listenPc = "rejected"
        /\ firstStart = "none"
        /\ \A t \in Tasks : task[t].origin # "listen"

\* listen() has failed and a rebuild has ended since
C14_Witness == listenRet = "rejected" /\ notifies >= 1

\* C19: with the listeners attached, the counter shared by the targets goes
\* up by one on every START and down by one on every END, onBuildComplete()
\* is called exactly when an END brings the counter to zero, and, with build
\* cycles that overlap, that is exactly when the last of them ends
C19_OneCounterOneCall ==
    [][(attached /\ attached') =>
          /\ \A t \in Targets :
                /\ (watch[t] = "idle" /\ watch'[t] = "run")
                      => runningBuilds' = runningBuilds + 1
                /\ (watch[t] \in {"run", "err"} /\ watch'[t] = "idle")
                      => runningBuilds' = runningBuilds - 1
          /\ (notifies' = notifies + 1)
                <=> (runningBuilds' = runningBuilds - 1 /\ runningBuilds' = 0)
          /\ (notifies' = notifies + 1)
                <=> (Building(watch) # {} /\ Building(watch') = {})]_vars

\* C20: in every reachable state at most one reload timeout is pending, and
\* it is the one of the last onBuildComplete(); a timeout that a later
\* onBuildComplete() cleared never runs: the callback has run at most once
\* since the last burst began, a full ReloadDelay after the last call
C20_OneTimerPending ==
    /\ Len(timers) <= 1
    /\ timers # <<>> => (sinceNotify >= 0 /\ timers[1] = ReloadDelay - sinceNotify)
    /\ fires + Len(timers) <= notifies
    /\ burstFired <= 1
    /\ firedAt \in {-1, ReloadDelay}

\* a second onBuildComplete() came while the timeout of the first was
\* pending, and the callback has run once since
C20_Witness == burstN = 2 /\ burstFired = 1 /\ fires = 1 /\ notifies = 2

\* C11: the init() of the next session stops the process and the watches of
\* this session and nothing else of it: when the next session creates its
\* watches, the process it stopped has exited and the watches of this session
\* are closed, and the exit of that process neither closes the hosting
\* server of this session nor sets the exit status
C11_HandOffStopsProcessAndWatches ==
    [][/\ hoPc' \in {"creating", "built"} =>
            /\ \A p \in Procs : proc'[p].by = "handoff" => proc'[p].st = "closed"
            /\ ~builder' /\ ~attached'
            /\ \A t \in Targets : watch'[t] = "closed"
       /\ \A p \in Procs :
            (proc[p].by = "handoff" /\ proc[p].st = "alive" /\ proc'[p].st = "closed")
               => (serverClosed' = serverClosed /\ exitCode' = exitCode)]_vars

\* C15: startElectron() spawns only with a server URL, and every process it
\* spawns gets ELECTRON_RENDERER_URL set to the first input of the
\* configuration resolved against the first local URL of the server: never
\* empty, whatever value was inherited, the other variables being inherited
C15_RendererUrl ==
    ret.fn = "startEnv" =>
        /\ ret.threw <=> (~call.srv.set \/ ~call.srv.resolved \/ call.srv.local = <<>>)
        /\ ~ret.threw =>
              /\ "ELECTRON_RENDERER_URL" \in DOMAIN ret.env
              /\ ret.env["ELECTRON_RENDERER_URL"] # ""
              /\ ret.env["ELECTRON_RENDERER_URL"] =
                    IF call.input.v = <<>> THEN call.srv.local[1]
                    ELSE call.srv.local[1] \o call.input.v[1]
              /\ \A k \in DOMAIN call.penv \ {"ELECTRON_RENDERER_URL"} :
                    ret.env[k] = call.penv[k]

\* Electron was spawned by a process that had inherited another URL
C15_Witness ==
    /\ ret.fn = "startEnv" /\ ~ret.threw
    /\ "ELECTRON_RENDERER_URL" \in DOMAIN call.penv
    /\ call.penv["ELECTRON_RENDERER_URL"] # ""
    /\ ret.env["ELECTRON_RENDERER_URL"] = "http://localhost:5173/index.html"

\* C18: the predicate says external exactly for the ids that are not
\* resolved and start neither with "/" nor with ".": every bare id is
\* external, no relative and no absolute path is
C18_External ==
    ret.fn = "external" =>
        /\ ret.val <=> ( /\ ~call.isResolved
                         /\ (call.id = <<>> \/ call.id[1] \notin {"/", "."}) )
        /\ (~call.isResolved /\ call.id # <<>> /\ call.id[1] = "a") => ret.val
        /\ (call.id # <<>> /\ call.id[1] \in {"/", "."}) => ~ret.val

\* the predicate was asked about an unresolved relative path
C18_Witness ==
    /\ ret.fn = "external" /\ ~ret.val
    /\ ~call.isResolved /\ call.id = <<".", "/">>

\* the value of configuration n at the path p of keys, when n has it
RECURSIVE Has(_, _)
Has(n, p) ==
    \/ p = <<>>
    \/ /\ n.t = "obj" /\ Head(p) \in DOMAIN n.kids
       /\ Has(n.kids[Head(p)], Tail(p))

RECURSIVE At(_, _)
At(n, p) == IF p = <<>> THEN n ELSE At(n.kids[Head(p)], Tail(p))

\* the paths of the values of n that are not objects
RECURSIVE LeafPaths(_)
LeafPaths(n) ==
    IF n.t # "obj" THEN {<<>>}
    ELSE UNION {{<<k>> \o p : p \in LeafPaths(n.kids[k])} : k \in DOMAIN n.kids}

IsPrefix(p, q) == Len(p) <= Len(q) /\ SubSeq(q, 1, Len(p)) = p

\* the defaults and the path of the entry of the environment called for
C17_Defaults ==
    IF call.env = "main" THEN MainDefaults
    ELSE IF call.env = "preload" THEN PreloadDefaults
    ELSE ClientDefaults

C17_EntryPath ==
    IF call.env = "client" THEN <<"build", "rollupOptions", "input">>
    ELSE <<"build", "lib", "entry">>

C16_OfObject == DefineElectronConfig([wraps |-> <<>>, cfg |-> call.cfg]).cfg

C21_StopOrder ==
    \A p \in Procs :
        (proc[p].st = "alive" /\ proc[p].kills > 0) =>
            /\ childProcess = p
            /\ proc[p].waiter # 0
            /\ \A i \in 1..Len(micro) : micro[i] # proc[p].waiter

\* C22: close() deletes this.server when it is called; it goes on to
\* stopBuilder() only when the process it sent SIGTERM to has exited, the
\* watches are closed by no other step of close(), and super.close() is
\* reached only with this.server deleted and the watches closed
C22_CloseOrder ==
    [][/\ (closePc # "stopping" /\ closePc' = "stopping") => server' = "none"
       /\ (closePc = "stopping" /\ closePc' = "base") =>
            /\ \A p \in Procs : proc[p].by = "close" => proc[p].st = "closed"
            /\ server = "none" /\ ~builder'
            /\ \A t \in Targets : watch'[t] = "closed"
       /\ (destroys' # destroys) => (closePc = "stopping" /\ closePc' = "base")
       /\ (closePc' = "closed" /\ closePc # "closed") =>
            /\ closePc = "base" /\ server = "none" /\ ~builder
            /\ \A p \in Procs : proc[p].by = "close" => proc[p].st = "closed"]_vars

\* close() has run to its end after stopping a running process and the
\* watches
C22_Witness ==
    /\ closePc = "closed" /\ destroys = 1
    /\ \E p \in Procs : proc[p].by = "close" /\ proc[p].st = "closed"

\* C23: once close() was called, the exit of a process, whatever its code
\* or signal, neither closes the hosting server nor spawns or starts a
\* process nor schedules a restart
C23_ExitAfterClose ==
    [][\A p \in Procs :
          (closeCalls >= 1 /\ proc[p].st = "alive" /\ proc'[p].st = "closed") =>
              /\ server = "none"
              /\ serverClosed' = serverClosed
              /\ Spawned' = Spawned
              /\ task' = task /\ timers' = timers]_vars

\* the process that close() stopped has exited by signal and the hosting
\* server was not closed
C23_Witness ==
    /\ ~serverClosed
    /\ \E p \in Procs : proc[p].by = "close" /\ proc[p].st = "closed" /\ proc[p].exit = "signal"

\* C24: when a startElectron() made by the reload timeout fails (no server
\* URL, or the spawn fails), the catch of the timeout sets the exit status to
\* 1 and closes the hosting server if this.server is set: the session is not
\* left serving without process and without failure status
C24_RestartFailureIsCaught ==
    [][\A t \in Tasks :
          ( /\ task[t].origin = "reload" /\ task[t].pc # "free"
            /\ task'[t].pc = "free" /\ Spawned' = Spawned )
          => /\ exitCode' = 1
             /\ server = "set" => serverClosed'
             /\ server' = server
             /\ ~(server' = "set" /\ ~serverClosed' /\ childProcess' = 0 /\ exitCode' <= 0)]_vars

\* a restart has failed with this.server set, no process was ever spawned
\* and listen has started none: the hosting server is closed, the status 1
C24_Witness ==
    /\ fires >= 1 /\ Spawned = {} /\ firstStart = "none"
    /\ \A t \in Tasks : task[t].pc = "free"
    /\ server = "set" /\ serverClosed /\ exitCode = 1

\* C25: no startElectron() is attempted before the 'listening' event of the
\* http server: a start is in progress, or a process has been spawned, only
\* once the callback of 'listening' has run
C25_NoStartBeforeListening ==
    ((\E t \in Tasks : task[t].pc # "free") \/ Spawned # {}) => listenPc = "fired"

\* C26: a startElectron() that finds no server URL after its stopElectron()
\* (this.server unset, or no resolved local URL) fails with an error, which
\* its caller catches, and spawns no process
C26_StartWithoutUrlFails ==
    [][\A t \in Tasks :
          ( /\ task[t].pc = "stopping" /\ task'[t].pc # "stopping"
            /\ ~(server = "set" /\ resolvedUrls) )
          => /\ task'[t].pc = "free"
             /\ Spawned' = Spawned /\ childProcess' = childProcess
             /\ exitCode' = 1
             /\ task[t].origin = "listen" => firstStart' = "nourl"]_vars

\* the start of listen has failed for want of a URL and nothing was spawned
C26_Witness ==
    /\ firstStart = "nourl" /\ Spawned = {} /\ exitCode = 1
    /\ \A t \in Tasks : task[t].pc = "free"

\* C27: an error in a rebuild (after the first build of the target) is not
\* fatal: init() stays resolved and the watchers and their listeners stay
\* as they are, and when the failed build cycle ends (END) with no other
\* build running the counter is back at 0, its value before the build, and
\* onBuildComplete() schedules the restart
C27_RebuildErrorIsNotFatal ==
    [][\A t \in Targets :
          /\ ( /\ initPc = "done" /\ attached
               /\ watch[t] = "run" /\ watch'[t] = "err" )
             => /\ initPc' = "done" /\ attached' /\ builder' = builder
                /\ runningBuilds' = runningBuilds
                /\ \A u \in Targets \ {t} : watch'[u] = watch[u]
          /\ ( /\ initPc = "done" /\ attached
               /\ watch[t] = "err" /\ watch'[t] = "idle"
               /\ \A u \in Targets \ {t} : watch[u] = "idle" )
             => /\ runningBuilds' = 0
                /\ notifies' = notifies + 1
                /\ timers' # <<>>]_vars

\* C28: once createElectronBuilder() has failed with the error of a first
\* build, no watcher it has started is still watching or building, and no
\* listener is attached
C28_FailedStartLeavesNothing ==
    initPc = "rejected" =>
        /\ ~attached /\ ~builder
        /\ \A t \in Targets : watch[t] \notin {"idle", "run"}

\* C29: stopBuilder() removes the listeners of every watcher and closes
\* it, does nothing when the builder is unset (never set, or stopped
\* before), and once the builder has been stopped no event of its watchers
\* changes runningBuilds or calls onBuildComplete()
C29_StopBuilder ==
    [][/\ (destroys' # destroys) =>
            /\ builder /\ ~builder' /\ ~attached'
            /\ destroys' = destroys + 1
            /\ \A t \in Targets : watch'[t] = "closed"
       /\ (closePc = "stopping" /\ closePc' = "base" /\ ~builder) =>
            UNCHANGED <<bvars, destroys>>
       /\ (~builder /\ destroys >= 1) =>
            /\ runningBuilds' = runningBuilds /\ notifies' = notifies
            /\ ~attached' /\ ~builder'
            /\ \A t \in Targets : watch'[t] = "closed"]_vars

\* close() has run twice after a rebuild: one destroy(), then a no-op
C29_Witness ==
    /\ closeCalls = 2 /\ closePc = "closed" /\ destroys = 1
    /\ rebuilds >= 1 /\ ~builder /\ ~attached

\* C30: runningBuilds, the counter of the builds in progress, is never
\* negative
C30_CounterNeverNegative == runningBuilds >= 0

\* C31: close() by itself gives no failure status: when the only process
\* ever spawned is the one listen started, close() has stopped it, it ended
\* by the signal close() sent, no reload timeout has ever fired and close()
\* has returned, process.exitCode has not been set to a non-zero value
C31_CloseGivesNoFailure ==
    ( /\ closePc = "closed" /\ closeCalls = 1
      /\ firstStart = "spawned" /\ Spawned = {1}
      /\ proc[1].by = "close" /\ proc[1].st = "closed" /\ proc[1].exit = "signal"
      /\ fires = 0 /\ timers = <<>>
      /\ \A t \in Tasks : task[t].pc = "free" )
    => exitCode <= 0

\* C32: once the init() of the next session has stopped the process and the
\* builder of this session, this session spawns no process any more
C32_NoSpawnAfterHandOff ==
    [][(hoPc \in {"creating", "built"}) => (Spawned' = Spawned)]_vars

\* C33: the 'close' event of a process unsets this.childProcess only when
\* this.childProcess is that process, so the exit of an older process leaves
\* the handle of a newer one, and whenever this.childProcess is set it is a
\* process this session has spawned and whose 'close' event has not come
C33_HandleIsLive ==
    [][/\ \A p \in Procs :
            (proc[p].st = "alive" /\ proc'[p].st = "closed") =>
                childProcess' = (IF childProcess = p THEN 0 ELSE childProcess)
       /\ childProcess' # 0 =>
            /\ childProcess' \in Spawned'
            /\ proc'[childProcess'].st = "alive"]_vars

\* the older process, stopped by a startElectron() that now goes on, has
\* just exited while this.childProcess is the newer process, still alive
C33_Witness ==
    /\ \E t \in Tasks : micro = <<t>> /\ task[t].pc = "stopping"
    /\ proc[1].st = "closed"
    /\ childProcess = 2 /\ proc[2].st = "alive"

====
